---- MODULE Spec2Model ----
(***************************************************************************)
(* Change detection and manifest merge of the `deadline asset` commands    *)
(* (src/src/deadline/client/cli/_groups/asset_group.py):                   *)
(*   get_manifest_changes / get_file_changes : fan the manifest's paths    *)
(*       out to a thread pool, fan the results back in;                    *)
(*   update_manifest : fold a change list into the manifest file.          *)
(*   asset_upload : refuse, or merge, then upload, after the detection;    *)
(*   asset_snapshot : check the options, walk the root, prepare and hash.  *)
(* The worker (S3AssetManager._process_input_path), the HashCache, the     *)
(* content hasher and the manifest codec are not part of the source tree   *)
(* at hand; they are modelled from the written specification, inside the   *)
(* interface the call sites fix.                                           *)
(***************************************************************************)
EXTENDS Integers, Sequences, FiniteSets, TLC

(* ------------------------------ bounds -------------------------------- *)

\* longest manifest path list drawn in an initial state
MaxManifestLen == 2
\* longest change list handed to update_manifest
MaxChanges == 2
\* most calls of update_manifest in a row
MaxCalls == 3

(* ------------------------------ values -------------------------------- *)

\* relative POSIX paths a manifest may list; "mf/x" lies under the manifest
\* directory, which is the directory "mf" of the asset root "r"; "mfa" is a
\* file of the root whose name begins like the directory's
Paths == {"a", "b", "mf/x", "mfa"}
\* the forms of the --manifest argument that name that directory
ManifestArgs == {"r/mf", "r/mf/"}
\* paths of tracked content (outside the manifest directory)
TrackedPaths == {"a", "b"}
\* a path, character by character (str.startswith works on characters)
Chars(p) ==
    CASE p = "a" -> <<"a">>
      [] p = "b" -> <<"b">>
      [] p = "mf/x" -> <<"m", "f", "/", "x">>
      [] p = "mfa" -> <<"m", "f", "a">>
      [] p = "r/mf" -> <<"r", "/", "m", "f">>
      [] p = "r/mf/" -> <<"r", "/", "m", "f", "/">>
      [] OTHER -> <<>>

\* file contents; the content decides the hash and the size
Contents == {"c1", "c2"}
\* content hasher: the digest depends only on the bytes
hash_file(c) == IF c = "c1" THEN "h1" ELSE "h2"
\* st_size of a file holding content c
st_size(c) == IF c = "c1" THEN 1 ELSE 2

FileStatus == {"UNCHANGED", "NEW", "MODIFIED", "DELETED"}

\* one manifest entry (BaseManifestPath): path, hash, size
BaseManifestPath(p, c) == [path |-> p, hash |-> hash_file(c), size |-> st_size(c)]

SeqsUpTo(S, n) == UNION {[1..k -> S] : k \in 0..n}

\* the entries a snapshot may have recorded for the tracked paths
SnapshotEntries == {BaseManifestPath(p, c) : p \in TrackedPaths, c \in Contents}
\* the (status, entry) pairs a caller may hand to update_manifest
ChangeEntries == {[status |-> s, entry |-> e] :
                    s \in {"NEW", "MODIFIED", "DELETED"}, e \in SnapshotEntries}

\* the manifest codec: the text of a manifest is the list of its entries'
\* fields; decode rebuilds the entry objects
encode(paths) == [i \in 1..Len(paths) |-> <<paths[i].path, paths[i].hash, paths[i].size>>]
decode_manifest(text) == [i \in 1..Len(text) |->
                            [path |-> text[i][1], hash |-> text[i][2], size |-> text[i][3]]]

\* the data model's invariant: no path is listed twice
UniquePaths(L) == \A i, k \in 1..Len(L) : L[i].path = L[k].path => i = k

\* the manifests a directory may hold when a command starts: snapshots and
\* merges write path lists without repeats
ManifestTexts == {encode(m) : m \in {l \in SeqsUpTo(SnapshotEntries, MaxManifestLen) :
                                        UniquePaths(l)}}

\* file names of the manifest directory; only names ending in "_input" are
\* manifests
FileNames == {"x_input", "y_input", "manifest_s3_mapping"}
EndsWithInput(f) == f \in {"x_input", "y_input"}
\* the text standing for "no such file"
NoFile == << <<"ENOENT", "", -1>> >>

(* --------------------------- update_manifest -------------------------- *)

\* Objects live on a heap: m[i] is the i-th entry decoded from the manifest
\* file, c[j] the entry of the j-th change the caller passed.  A reference
\* names one of them.
Ref(kind, idx) == [kind |-> kind, idx |-> idx]

\* first position of path p in the list L
FirstIndex(L, p) == CHOOSE i \in 1..Len(L) :
                        L[i].path = p /\ \A k \in 1..(i - 1) : L[k].path # p
\* last position of path p in the list L
LastIndex(L, p) == CHOOSE i \in 1..Len(L) :
                        L[i].path = p /\ \A k \in (i + 1)..Len(L) : L[k].path # p

\* the positions of L that introduce a new key, in order
RECURSIVE KeyPositions(_, _)
KeyPositions(L, i) ==
    IF i > Len(L) THEN <<>>
    ELSE IF FirstIndex(L, L[i].path) = i
         THEN <<i>> \o KeyPositions(L, i + 1)
         ELSE KeyPositions(L, i + 1)

\* {path: entry for entry in paths}: a key keeps the place of its first
\* occurrence and the value of its last one
manifest_info_dict(L) ==
    LET pos == KeyPositions(L, 1)
    IN  [ref |-> [p \in {L[i].path : i \in 1..Len(L)} |-> Ref("m", LastIndex(L, p))],
         out |-> [k \in 1..Len(pos) |-> Ref("m", LastIndex(L, L[pos[k]].path))]]

\* the loop body gone wrong: a new entry is appended to the list of values but
\* never entered in the dictionary
MergeStepUnregistered(st, j) ==
    LET e == st.c[j]
    IN  IF e.path \in DOMAIN st.ref
        THEN LET r == st.ref[e.path]
             IN  IF r.kind = "m" THEN [st EXCEPT !.m[r.idx].hash = e.hash]
                 ELSE [st EXCEPT !.c[r.idx].hash = e.hash]
        ELSE [st EXCEPT !.out = Append(st.out, Ref("c", j))]

\* the loop body gone wrong: the entry is appended without a look at the
\* dictionary
MergeStepAppend(st, j) ==
    [st EXCEPT !.ref = [q \in DOMAIN st.ref \cup {st.c[j].path} |->
                           IF q = st.c[j].path THEN Ref("c", j) ELSE st.ref[q]],
               !.out = Append(st.out, Ref("c", j))]

\* one turn of the loop over new_or_modified_paths; the status is not read
MergeStep(st, j) ==
    LET e == st.c[j]
    IN  IF e.path \in DOMAIN st.ref
        THEN \* manifest_info_dict[path].hash = base_asset_manifest.hash
             LET r == st.ref[e.path]
             IN  IF r.kind = "m" THEN [st EXCEPT !.m[r.idx].hash = e.hash]
                 ELSE [st EXCEPT !.c[r.idx].hash = e.hash]
        ELSE \* manifest_info_dict[path] = base_asset_manifest
             [st EXCEPT !.ref = [q \in DOMAIN st.ref \cup {e.path} |->
                                    IF q = e.path THEN Ref("c", j) ELSE st.ref[q]],
                        !.out = Append(st.out, Ref("c", j))]

RECURSIVE MergeLoop(_, _)
MergeLoop(st, j) ==
    IF j > Len(st.c) THEN st ELSE MergeLoop(MergeStep(st, j), j + 1)

Deref(st, r) == IF r.kind = "m" THEN st.m[r.idx] ELSE st.c[r.idx]

\* the listing gone wrong: only the entries the changes touched are kept
updated_path_list_touched(st) ==
    LET keep == SelectSeq(st.out, LAMBDA r :
                    \E j \in 1..Len(st.c) : st.c[j].path = Deref(st, r).path)
    IN  [k \in 1..Len(keep) |-> Deref(st, keep[k])]

\* list(manifest_info_dict.values())
updated_path_list(st) == [k \in 1..Len(st.out) |-> Deref(st, st.out[k])]

\* update_manifest on the text of the manifest file and the change list:
\* the paths of the returned manifest (also what is written back), the
\* change entries the returned list holds by reference, and the caller's
\* change list as the call leaves it
merge(text, changes) ==
    LET L  == decode_manifest(text)
        d  == manifest_info_dict(L)
        st == MergeLoop([ref |-> d.ref, out |-> d.out, m |-> L,
                         c |-> [j \in 1..Len(changes) |-> changes[j].entry]], 1)
    IN  [paths   |-> updated_path_list(st),
         shared  |-> {st.out[k].idx : k \in {i \in 1..Len(st.out) : st.out[i].kind = "c"}},
         changes |-> [j \in 1..Len(changes) |->
                        [status |-> changes[j].status, entry |-> st.c[j]]]]

(* ------------------------- files and hash cache ----------------------- *)

\* one file of the asset root as stat and open see it
Absent == [exists |-> FALSE, readable |-> FALSE, content |-> "none", mtime |-> 0]
File(c, t, r) == [exists |-> TRUE, readable |-> r, content |-> c, mtime |-> t]
\* modification times a file may carry
Mtimes == {1, 2}

\* Fingerprint: (size, mtime), from stat alone
Fingerprint(f) == [size |-> st_size(f.content), mtime |-> f.mtime]

\* CacheEntry: the fingerprint a hash was computed under, and the hash
CacheEntry(fp, h) == [size |-> fp.size, mtime |-> fp.mtime, hash |-> h]
NoCacheEntry == [size |-> -1, mtime |-> -1, hash |-> ""]

\* HashCache lookup(path, fingerprint): a hit only when the stored
\* fingerprint equals the supplied one
cache_hit(entry, fp) == entry # NoCacheEntry /\ entry.size = fp.size /\ entry.mtime = fp.mtime

(* ---------------------------- the worker ------------------------------ *)

\* what a future holds: nothing yet, a (status, entry) value, or an exception
NoEntry == [path |-> "", hash |-> "", size |-> 0]
NoResult == [kind |-> "none", status |-> "", entry |-> NoEntry]
Value(status, entry) == [kind |-> "value", status |-> status, entry |-> entry]
IOError(p) == [kind |-> "error", status |-> "IOError", entry |-> [NoEntry EXCEPT !.path = p]]

\* The worker is handed path, root_path, hash_cache and update, and no
\* manifest: the only prior record of a path it can compare with is the hash
\* cache's.  No record: NEW; a record with another hash: MODIFIED; else
\* UNCHANGED.
status_of(prior, h) ==
    IF prior = NoCacheEntry THEN "NEW"
    ELSE IF prior.hash # h THEN "MODIFIED"
    ELSE "UNCHANGED"

\* second half of the worker for file f at path p, prior being the cache's
\* record read in the first half: on a hit the cached hash is used and the
\* file is not read; on a miss the file is hashed (IOError when it cannot be
\* read) and the hash stored under the current fingerprint
process_input_path(p, f, prior) ==
    IF cache_hit(prior, Fingerprint(f))
    THEN [result |-> Value(status_of(prior, prior.hash),
                           [path |-> p, hash |-> prior.hash, size |-> st_size(f.content)]),
          store |-> NoCacheEntry, hashed |-> FALSE]
    ELSE IF ~f.readable
    THEN [result |-> IOError(p), store |-> NoCacheEntry, hashed |-> TRUE]
    ELSE [result |-> Value(status_of(prior, hash_file(f.content)),
                           [path |-> p, hash |-> hash_file(f.content),
                            size |-> st_size(f.content)]),
          store |-> CacheEntry(Fingerprint(f), hash_file(f.content)),
          hashed |-> TRUE]

(* ------------------- get_manifest_changes: the inputs ----------------- *)

\* the --manifest argument of asset_upload
VARIABLE manifest

\* os.path.basename: what follows the last "/" (nothing when the argument
\* ends in one)
basename(s) ==
    LET slashes == {i \in 1..Len(s) : s[i] = "/"}
        last == IF slashes = {} THEN 0
                ELSE CHOOSE i \in slashes : \A k \in slashes : k <= i
    IN  SubSeq(s, last + 1, Len(s))

\* os.path.basename(manifest), character by character
manifest_dir_name == basename(Chars(manifest))

\* str.startswith: the characters d begin the path p
StartsWith(p, d) ==
    /\ Len(d) <= Len(Chars(p))
    /\ SubSeq(Chars(p), 1, Len(d)) = d

\* the paths of the manifest that do not start with the manifest
\* directory's name, in manifest order
input_paths_of(paths) ==
    LET keep == SelectSeq(paths, LAMBDA e : ~StartsWith(e.path, manifest_dir_name))
    IN  [i \in 1..Len(keep) |-> keep[i].path]

\* the loop body gone wrong: every status is kept
collect_every_status(list, res) ==
    Append(list, [status |-> res.status, entry |-> res.entry])

\* one turn of the loop over as_completed, for a future that holds a value
collect(list, res) ==
    IF res.status = "NEW" \/ res.status = "MODIFIED"
    THEN Append(list, [status |-> res.status, entry |-> res.entry])
    ELSE list

(* ------------------------------- state -------------------------------- *)

VARIABLES
    \* what outlives a command
    dir,                    \* manifest directory: file name -> text, or NoFile
    disk,                   \* asset root: path -> file
    cache_db,               \* the hash cache's backing store: path -> entry
    \* asset_upload
    asset_manifest,         \* paths of the manifest decoded from the directory
    \* get_manifest_changes / get_file_changes
    dpc,                    \* where the call stands
    futures,                \* per submitted path: its task and what it holds
    consumed,               \* futures as_completed has yielded
    new_or_modified_paths,  \* the list being built
    hash_cache,             \* the cache handle: [open, session, opened_on]
    changes_result,         \* what the call returned
    stored,                 \* entries the workers stored during this pass
    hashed,                 \* per path, how often the content hasher read it
    \* update_manifest and its caller
    calls,                  \* calls of update_manifest made by this process
    outcome,                \* how the last call ended
    arg_changes,            \* new_or_modified_paths as passed to the last call
    caller_changes,         \* the caller's list after the last call
    manifest_file_path,     \* the file the last call read last and wrote
    old_paths,              \* the paths that file held before the last call
    returned,               \* local_base_asset_manifest.paths as returned
    shared,                 \* change entries the returned list refers to
    first_call,             \* what the first call wrote and returned
    \* a second run of the command
    run,                    \* which run of the command this is
    first_run,              \* how the first run's detection ended
    \* asset_snapshot
    fs,                     \* the file system: [dirs, files]
    root_dir,               \* --root-dir
    manifest_out,           \* --manifest-out, or None
    recursive,              \* --recursive
    spc,                    \* where the command stands
    walk,                   \* directories os.walk has still to visit
    inputs,                 \* the list of input paths being built
    prepare_calls,          \* arguments of the calls of prepare_paths_for_upload
    upload_group,           \* what prepare_paths_for_upload returned
    hash_calls,             \* calls of api.hash_attachments
    manifests,              \* what hash_attachments returned
    written,                \* manifests written by _write_local_input_manifest
    error,                  \* the exception the command ended with
    \* asset_upload after the detection
    update,                 \* --update
    upc,                    \* where the command stands
    upload_calls,           \* arguments of the calls of api.upload_attachments
    upload_error            \* the exception the command ended with

mergeVars == <<calls, outcome, arg_changes, caller_changes, manifest_file_path,
               old_paths, returned, shared, first_call>>
detectVars == <<dpc, futures, consumed, new_or_modified_paths, hash_cache,
                changes_result, stored, hashed>>
\* what the command was invoked with, and what an earlier run of it did
snapshotVars == <<fs, root_dir, manifest_out, recursive, spc, walk, inputs,
                  prepare_calls, upload_group, hash_calls, manifests, written, error>>
rerunVars == <<manifest, run, first_run>>
pipelineVars == <<update, upc, upload_calls, upload_error>>
restVars == <<rerunVars, snapshotVars, pipelineVars>>
vars == <<dir, disk, cache_db, asset_manifest, detectVars, mergeVars, restVars>>


NoCall == [file |-> "none", old |-> <<>>, text |-> <<>>, paths |-> <<>>]

InitMergeVars ==
    /\ calls = 0
    /\ outcome = "none"
    /\ arg_changes = <<>>
    /\ caller_changes = <<>>
    /\ manifest_file_path = "none"
    /\ old_paths = <<>>
    /\ returned = <<>>
    /\ shared = {}
    /\ first_call = NoCall

NoRun == [dpc |-> "none", changes |-> <<>>]

None == "None"
NoError == [kind |-> "none", names |-> ""]
NoGroup == [asset_groups |-> {}, total_input_files |-> 0]

\* asset_snapshot before its first statement
InitSnapshotVars ==
    /\ spc = "start"
    /\ walk = <<>>
    /\ inputs = <<>>
    /\ prepare_calls = <<>>
    /\ upload_group = NoGroup
    /\ hash_calls = 0
    /\ manifests = <<>>
    /\ written = {}
    /\ error = NoError

\* no snapshot is being taken
NoSnapshot ==
    /\ fs = [dirs |-> {}, files |-> {}]
    /\ root_dir = "r"
    /\ manifest_out = None
    /\ recursive = FALSE
    /\ InitSnapshotVars

\* asset_upload when it calls get_manifest_changes
InitPipelineVars ==
    /\ upc = "detect"
    /\ upload_calls = <<>>
    /\ upload_error = "none"

InitRestVars ==
    /\ run = 1
    /\ first_run = NoRun
    /\ NoSnapshot
    /\ update = FALSE
    /\ InitPipelineVars

InitDetectVars ==
    /\ dpc = "idle"
    /\ futures = <<>>
    /\ consumed = {}
    /\ new_or_modified_paths = <<>>
    /\ hash_cache = [open |-> FALSE, session |-> [p \in Paths |-> NoCacheEntry],
                     opened_on |-> [p \in Paths |-> NoCacheEntry]]
    /\ changes_result = <<>>
    /\ stored = [p \in Paths |-> NoCacheEntry]
    /\ hashed = [p \in Paths |-> 0]

\* a manifest directory as `asset snapshot` and earlier uploads may leave it;
\* update_manifest reads neither the asset root nor the cache
InitMerge ==
    /\ dir \in [FileNames -> ManifestTexts \cup {NoFile}]
    /\ dir["manifest_s3_mapping"] = <<>>
    /\ dir["y_input"] \in {NoFile, encode(<<BaseManifestPath("b", "c1")>>)}
    /\ disk = [p \in Paths |-> Absent]
    /\ cache_db = [p \in Paths |-> NoCacheEntry]
    /\ asset_manifest = <<>>
    /\ manifest = "r/mf"
    /\ InitDetectVars
    /\ InitMergeVars
    /\ InitRestVars

\* the manifests asset_upload may have decoded: distinct paths, any of them
\* under the manifest directory or not
LoadedManifests ==
    {l \in SeqsUpTo({BaseManifestPath(p, c) : p \in Paths, c \in Contents}, MaxManifestLen) :
        UniquePaths(l)}

\* the files a tracked path may be: gone, unreadable, or readable with
\* either content
TrackedFiles == {Absent, File("c1", 2, FALSE), File("c1", 2, TRUE), File("c2", 2, TRUE)}

\* the cache records an earlier pass may have left for a path
EarlierEntries ==
    {NoCacheEntry} \cup {CacheEntry(Fingerprint(File(c, t, TRUE)), hash_file(c)) :
                            c \in Contents, t \in Mtimes}

\* asset_upload has decoded the one manifest of the directory; the asset
\* root and the cache are as earlier commands and the user left them
InitDetect ==
    /\ asset_manifest \in LoadedManifests
    /\ dir = [f \in FileNames |-> IF f = "x_input" THEN encode(asset_manifest)
                                  ELSE IF f = "y_input" THEN NoFile ELSE <<>>]
    /\ disk \in [Paths -> TrackedFiles]
    /\ disk["mf/x"] = File("c1", 2, TRUE)
    /\ disk["mfa"] = File("c2", 2, TRUE)
    /\ cache_db \in [Paths -> EarlierEntries]
    /\ cache_db["mf/x"] = NoCacheEntry
    /\ cache_db["mfa"] = NoCacheEntry
    /\ manifest \in ManifestArgs
    /\ InitDetectVars
    /\ InitMergeVars
    /\ InitRestVars

\* os.listdir(manifest) filtered by endswith("_input")
InputFiles == {f \in FileNames : EndsWithInput(f) /\ dir[f] # NoFile}

\* update_manifest(manifest, new_or_modified_paths).  Every "_input" file is
\* read and the one listed last is kept and rewritten; os.listdir gives no
\* order, so any of them may be that one.  With no such file the name
\* local_base_asset_manifest is unbound at the first use.
update_manifest_body(changes) ==
    /\ calls' = calls + 1
    /\ arg_changes' = changes
    /\ IF InputFiles = {}
       THEN /\ outcome' = "UnboundLocalError"
            /\ caller_changes' = changes
            /\ UNCHANGED <<dir, manifest_file_path, old_paths, returned, shared>>
       ELSE \E f \in InputFiles :
                LET r == merge(dir[f], changes)
                IN  /\ outcome' = "returned"
                    /\ manifest_file_path' = f
                    /\ old_paths' = decode_manifest(dir[f])
                    /\ returned' = r.paths
                    /\ shared' = r.shared
                    /\ caller_changes' = r.changes
                    /\ dir' = [dir EXCEPT ![f] = encode(r.paths)]

\* a first call, with any change list
update_manifest ==
    /\ calls = 0
    /\ \E changes \in SeqsUpTo(ChangeEntries, MaxChanges) :
           update_manifest_body(changes)
    /\ UNCHANGED <<first_call, disk, cache_db, asset_manifest, detectVars, restVars>>

\* the caller merges the same list once more: the list object it still
\* holds, or an equal copy of what it passed the first time
update_manifest_again ==
    /\ calls = 1
    /\ outcome = "returned"
    /\ first_call' = [file |-> manifest_file_path, old |-> old_paths,
                      text |-> dir[manifest_file_path], paths |-> returned]
    /\ \E changes \in {caller_changes, arg_changes} : update_manifest_body(changes)
    /\ UNCHANGED <<disk, cache_db, asset_manifest, detectVars, restVars>>

NextMerge == update_manifest \/ update_manifest_again

SpecMerge == InitMerge /\ [][NextMerge]_vars

\* a manifest directory with one manifest file, which lists no path twice
InitMergeSequence ==
    /\ InitMerge
    /\ dir["x_input"] # NoFile
    /\ dir["y_input"] = NoFile

\* the changes of one status: the loop binds the status to _ and never
\* reads it, so lists that differ in it alone are merged alike
ChangesOfOneStatus == {ch \in ChangeEntries : ch.status = "NEW"}

\* one more call, with any change list
update_manifest_next ==
    /\ calls < MaxCalls
    /\ \E changes \in SeqsUpTo(ChangesOfOneStatus, MaxChanges) :
           update_manifest_body(changes)
    /\ UNCHANGED <<first_call, disk, cache_db, asset_manifest, detectVars, restVars>>

NextMergeSequence == update_manifest_next

SpecMergeSequence == InitMergeSequence /\ [][NextMergeSequence]_vars

\* manifest texts that list some path twice, as a file written or edited
\* outside these commands may
RepeatedPathTexts ==
    {encode(m) : m \in {l \in SeqsUpTo(SnapshotEntries, MaxManifestLen) : ~UniquePaths(l)}}

\* a manifest directory whose one manifest file lists a path twice
InitMalformed ==
    /\ dir \in [FileNames -> RepeatedPathTexts \cup {NoFile, <<>>}]
    /\ dir["x_input"] \in RepeatedPathTexts
    /\ dir["y_input"] = NoFile
    /\ dir["manifest_s3_mapping"] = <<>>
    /\ disk = [p \in Paths |-> Absent]
    /\ cache_db = [p \in Paths |-> NoCacheEntry]
    /\ asset_manifest = <<>>
    /\ manifest = "r/mf"
    /\ InitDetectVars
    /\ InitMergeVars
    /\ InitRestVars

SpecMalformed == InitMalformed /\ [][NextMerge]_vars

(* --------------- get_manifest_changes / get_file_changes -------------- *)

Pending(p) == [path |-> p, state |-> "pending", prior |-> NoCacheEntry, result |-> NoResult]

\* the call gone wrong: the cache is opened on an empty store of its own
get_manifest_changes_fresh_cache ==
    /\ dpc = "idle"
    /\ LET input_paths == input_paths_of(asset_manifest)
       IN  futures' = [i \in 1..Len(input_paths) |-> Pending(input_paths[i])]
    /\ hash_cache' = [open |-> TRUE, session |-> [p \in Paths |-> NoCacheEntry],
                      opened_on |-> [p \in Paths |-> NoCacheEntry]]
    /\ consumed' = {}
    /\ new_or_modified_paths' = <<>>
    /\ dpc' = "collecting"
    /\ UNCHANGED <<dir, disk, cache_db, asset_manifest, changes_result, stored, hashed,
                   mergeVars, restVars>>

\* get_manifest_changes up to the submission of the tasks: the input paths
\* are chosen, the cache is opened, the pool is created and one task per
\* input path is submitted
get_manifest_changes ==
    /\ dpc = "idle"
    /\ LET input_paths == input_paths_of(asset_manifest)
       IN  futures' = [i \in 1..Len(input_paths) |-> Pending(input_paths[i])]
    /\ hash_cache' = [open |-> TRUE, session |-> cache_db, opened_on |-> cache_db]
    /\ consumed' = {}
    /\ new_or_modified_paths' = <<>>
    /\ dpc' = "collecting"
    /\ UNCHANGED <<dir, disk, cache_db, asset_manifest, changes_result, stored, hashed,
                   mergeVars, restVars>>

\* a pool thread starts task i: stat of the path and the cache lookup.  A
\* path that is not on disk is DELETED at once, nothing is hashed.
process_input_path_stat(i) ==
    /\ futures[i].state = "pending"
    /\ LET p == futures[i].path
       IN  IF ~disk[p].exists
           THEN futures' = [futures EXCEPT ![i].state = "done",
                               ![i].result = Value("DELETED", [NoEntry EXCEPT !.path = p])]
           ELSE futures' = [futures EXCEPT ![i].state = "running",
                               ![i].prior = hash_cache.session[p]]
    /\ UNCHANGED <<dir, disk, cache_db, asset_manifest, dpc, consumed,
                   new_or_modified_paths, hash_cache, changes_result, stored, hashed,
                   mergeVars, restVars>>

\* task i finishes: hash on a miss, store, classify
process_input_path_hash(i) ==
    /\ futures[i].state = "running"
    /\ LET p == futures[i].path
           r == process_input_path(p, disk[p], futures[i].prior)
       IN  /\ futures' = [futures EXCEPT ![i].state = "done", ![i].result = r.result]
           /\ hash_cache' = IF r.store = NoCacheEntry THEN hash_cache
                            ELSE [hash_cache EXCEPT !.session[p] = r.store]
           /\ stored' = IF r.store = NoCacheEntry THEN stored
                        ELSE [stored EXCEPT ![p] = r.store]
           /\ hashed' = IF r.hashed THEN [hashed EXCEPT ![p] = @ + 1] ELSE hashed
    /\ UNCHANGED <<dir, disk, cache_db, asset_manifest, dpc, consumed,
                   new_or_modified_paths, changes_result, mergeVars, restVars>>

\* as_completed yields a finished future and future.result() returns
as_completed_value(i) ==
    /\ dpc = "collecting"
    /\ i \notin consumed
    /\ futures[i].state = "done"
    /\ futures[i].result.kind = "value"
    /\ consumed' = consumed \cup {i}
    /\ new_or_modified_paths' = collect(new_or_modified_paths, futures[i].result)
    /\ UNCHANGED <<dir, disk, cache_db, asset_manifest, dpc, futures, hash_cache,
                   changes_result, stored, hashed, mergeVars, restVars>>

\* as_completed yields a finished future and future.result() raises what the
\* task raised: the loop is left, the list is dropped
as_completed_raise(i) ==
    /\ dpc = "collecting"
    /\ i \notin consumed
    /\ futures[i].state = "done"
    /\ futures[i].result.kind = "error"
    /\ consumed' = consumed \cup {i}
    /\ dpc' = "unwinding"
    /\ UNCHANGED <<dir, disk, cache_db, asset_manifest, futures, new_or_modified_paths,
                   hash_cache, changes_result, stored, hashed, mergeVars, restVars>>

\* the pool gone wrong: its with-block is left without waiting for the tasks
not_awaited == TRUE

\* every task has finished (ThreadPoolExecutor.__exit__ waits for them)
all_done == \A i \in 1..Len(futures) : futures[i].state = "done"

\* the loop gone wrong: it is left as soon as one future was yielded
collected_any == consumed # {} \/ Len(futures) = 0

\* as_completed is exhausted: every future was yielded
collected_all == consumed = 1..Len(futures)

\* HashCache.__exit__: the session is flushed and the cache closed
close_cache ==
    /\ cache_db' = hash_cache.session
    /\ hash_cache' = [hash_cache EXCEPT !.open = FALSE]

\* return new_or_modified_paths: both with-blocks are left, the pool first
\* (its tasks are all finished), then the cache
get_file_changes_return ==
    /\ dpc = "collecting"
    /\ collected_all
    /\ all_done
    /\ close_cache
    /\ changes_result' = new_or_modified_paths
    /\ dpc' = "returned"
    /\ UNCHANGED <<dir, disk, asset_manifest, futures, consumed, new_or_modified_paths,
                   stored, hashed, mergeVars, restVars>>

\* the exception leaves the with-blocks with the cache left open
get_file_changes_raise_unclosed ==
    /\ dpc = "unwinding"
    /\ all_done
    /\ dpc' = "raised"
    /\ UNCHANGED <<dir, disk, cache_db, asset_manifest, futures, consumed,
                   new_or_modified_paths, hash_cache, changes_result, stored, hashed,
                   mergeVars, restVars>>

\* the exception leaves both with-blocks: the pool waits for the tasks
\* still queued or running, the cache is closed, the exception reaches the
\* caller
get_file_changes_raise ==
    /\ dpc = "unwinding"
    /\ all_done
    /\ close_cache
    /\ dpc' = "raised"
    /\ UNCHANGED <<dir, disk, asset_manifest, futures, consumed, new_or_modified_paths,
                   changes_result, stored, hashed, mergeVars, restVars>>

\* the command is run a second time: the asset root, the manifest and the
\* cache's backing store are as the first run left them
asset_upload_again ==
    /\ run = 1
    /\ dpc \in {"returned", "raised"}
    /\ run' = 2
    /\ first_run' = [dpc |-> dpc, changes |-> changes_result]
    /\ dpc' = "idle"
    /\ futures' = <<>>
    /\ consumed' = {}
    /\ new_or_modified_paths' = <<>>
    /\ hash_cache' = [open |-> FALSE, session |-> [p \in Paths |-> NoCacheEntry],
                      opened_on |-> [p \in Paths |-> NoCacheEntry]]
    /\ changes_result' = <<>>
    /\ stored' = [p \in Paths |-> NoCacheEntry]
    /\ UNCHANGED <<dir, disk, cache_db, asset_manifest, manifest, hashed, mergeVars,
                   snapshotVars, pipelineVars>>

NextDetect ==
    \/ get_manifest_changes
    \/ \E i \in 1..Len(futures) : process_input_path_stat(i)
    \/ \E i \in 1..Len(futures) : process_input_path_hash(i)
    \/ \E i \in 1..Len(futures) : as_completed_value(i)
    \/ \E i \in 1..Len(futures) : as_completed_raise(i)
    \/ get_file_changes_return
    \/ get_file_changes_raise

SpecDetect == InitDetect /\ [][NextDetect]_vars

\* asset_upload has decoded a manifest file that lists a tracked path twice
InitDetectMalformed ==
    /\ asset_manifest \in {decode_manifest(t) : t \in RepeatedPathTexts}
    /\ dir = [f \in FileNames |-> IF f = "x_input" THEN encode(asset_manifest)
                                  ELSE IF f = "y_input" THEN NoFile ELSE <<>>]
    /\ disk \in [Paths -> TrackedFiles]
    /\ disk["mf/x"] = File("c1", 2, TRUE)
    /\ disk["mfa"] = File("c2", 2, TRUE)
    /\ cache_db \in [Paths -> EarlierEntries]
    /\ cache_db["mf/x"] = NoCacheEntry
    /\ cache_db["mfa"] = NoCacheEntry
    /\ manifest = "r/mf"
    /\ InitDetectVars
    /\ InitMergeVars
    /\ InitRestVars

SpecDetectMalformed == InitDetectMalformed /\ [][NextDetect]_vars

\* two consecutive runs over the tracked paths of one manifest
InitRerun ==
    /\ InitDetect
    /\ manifest = "r/mf"
    /\ \A i \in 1..Len(asset_manifest) : asset_manifest[i].path \in TrackedPaths

NextRerun == NextDetect \/ asset_upload_again

SpecRerun == InitRerun /\ [][NextRerun]_vars

(* ------------------- asset_upload after the detection ----------------- *)

\* asset_upload has decoded the one manifest of the directory, which lists
\* tracked paths, and was given --update or not
InitUpload ==
    /\ asset_manifest \in LoadedManifests
    /\ \A i \in 1..Len(asset_manifest) : asset_manifest[i].path \in TrackedPaths
    /\ dir = [f \in FileNames |-> IF f = "x_input" THEN encode(asset_manifest)
                                  ELSE IF f = "y_input" THEN NoFile ELSE <<>>]
    /\ disk \in [Paths -> TrackedFiles]
    /\ disk["mf/x"] = File("c1", 2, TRUE)
    /\ disk["mfa"] = File("c2", 2, TRUE)
    /\ cache_db \in [Paths -> EarlierEntries]
    /\ cache_db["mf/x"] = NoCacheEntry
    /\ cache_db["mfa"] = NoCacheEntry
    /\ manifest = "r/mf"
    /\ run = 1
    /\ first_run = NoRun
    /\ NoSnapshot
    /\ update \in BOOLEAN
    /\ InitPipelineVars
    /\ InitDetectVars
    /\ InitMergeVars

\* there are changes and --update is set: update_manifest merges them into
\* the manifest file, and what it returns replaces the manifest of
\* asset_root_manifests[0]
asset_upload_update ==
    /\ upc = "detect"
    /\ dpc = "returned"
    /\ Len(changes_result) > 0
    /\ update
    /\ update_manifest_body(changes_result)
    /\ asset_manifest' = IF outcome' = "returned" THEN returned' ELSE asset_manifest
    /\ upc' = IF outcome' = "returned" THEN "merged" ELSE "failed"
    /\ upload_error' = IF outcome' = "returned" THEN upload_error ELSE outcome'
    /\ UNCHANGED <<disk, cache_db, detectVars, first_call, rerunVars, snapshotVars,
                   update, upload_calls>>

\* the branch gone wrong: the changes are reported and the command goes on
asset_upload_outdated_ignored ==
    /\ upc = "detect"
    /\ dpc = "returned"
    /\ Len(changes_result) > 0
    /\ ~update
    /\ upc' = "merged"
    /\ UNCHANGED <<dir, disk, cache_db, asset_manifest, detectVars, mergeVars, rerunVars,
                   snapshotVars, update, upload_calls, upload_error>>

\* there are changes and --update is not set: ManifestOutdatedError
asset_upload_outdated ==
    /\ upc = "detect"
    /\ dpc = "returned"
    /\ Len(changes_result) > 0
    /\ ~update
    /\ upload_error' = "ManifestOutdatedError"
    /\ upc' = "failed"
    /\ UNCHANGED <<dir, disk, cache_db, asset_manifest, detectVars, mergeVars, rerunVars,
                   snapshotVars, update, upload_calls>>

\* api.upload_attachments(manifests=asset_root_manifests), reached when
\* there was no change or the changes were merged
upload_attachments ==
    /\ dpc = "returned"
    /\ \/ upc = "merged"
       \/ upc = "detect" /\ Len(changes_result) = 0
    /\ upload_calls' = Append(upload_calls, [manifests |-> <<asset_manifest>>])
    /\ upc' = "uploaded"
    /\ UNCHANGED <<dir, disk, cache_db, asset_manifest, detectVars, mergeVars, rerunVars,
                   snapshotVars, update, upload_error>>

\* _write_local_manifest_s3_mapping: the mapping file of the manifest
\* directory is written
write_local_manifest_s3_mapping ==
    /\ upc = "uploaded"
    /\ dir' = [dir EXCEPT !["manifest_s3_mapping"] = << <<"inputManifestPath", "", 0>> >>]
    /\ upc' = "done"
    /\ UNCHANGED <<disk, cache_db, asset_manifest, detectVars, mergeVars, rerunVars,
                   snapshotVars, update, upload_calls, upload_error>>

NextUpload ==
    \/ NextDetect
    \/ asset_upload_update
    \/ asset_upload_outdated
    \/ upload_attachments
    \/ write_local_manifest_s3_mapping

SpecUpload == InitUpload /\ [][NextUpload]_vars

\* the command has ended, by an exception or after the mapping was written,
\* and is run a second time with the same options: it decodes the manifest
\* file as the first run left it; the asset root and the cache's backing
\* store are as the first run left them
asset_upload_rerun ==
    /\ run = 1
    /\ upc \in {"done", "failed"} \/ dpc = "raised"
    /\ run' = 2
    /\ first_run' = [dpc |-> dpc, changes |-> changes_result]
    /\ \E f \in InputFiles : asset_manifest' = decode_manifest(dir[f])
    /\ dpc' = "idle"
    /\ futures' = <<>>
    /\ consumed' = {}
    /\ new_or_modified_paths' = <<>>
    /\ hash_cache' = [open |-> FALSE, session |-> [p \in Paths |-> NoCacheEntry],
                      opened_on |-> [p \in Paths |-> NoCacheEntry]]
    /\ changes_result' = <<>>
    /\ stored' = [p \in Paths |-> NoCacheEntry]
    /\ upc' = "detect"
    /\ upload_calls' = <<>>
    /\ upload_error' = "none"
    /\ UNCHANGED <<dir, disk, cache_db, manifest, hashed, mergeVars, snapshotVars, update>>

NextConverge == NextUpload \/ asset_upload_rerun

SpecConverge == InitUpload /\ [][NextConverge]_vars

(* ---------------------------- asset_snapshot -------------------------- *)

\* the directories and files a file system may hold, and where each lies
SnapDirs == {"r", "r/s", "r/u", "r/s/t", "out"}
SnapFiles == {"r/f", "r/s/g", "r/u/h", "r/s/t/k"}
dirname(x) ==
    CASE x \in {"r/f", "r/s", "r/u"} -> "r"
      [] x \in {"r/s/g", "r/s/t"} -> "r/s"
      [] x = "r/u/h" -> "r/u"
      [] x = "r/s/t/k" -> "r/s/t"
      [] OTHER -> ""

\* file systems: every directory and file lies in an existing directory
FileSystems ==
    {t \in [dirs : SUBSET SnapDirs, files : SUBSET SnapFiles] :
        /\ \A d \in t.dirs : dirname(d) \in t.dirs \cup {""}
        /\ \A f \in t.files : dirname(f) \in t.dirs}

\* the values the options may be given
RootDirArgs == {"r", "nodir"}
ManifestOutArgs == {None, "", "out", "nodir"}

\* every order in which a directory listing may give the set S
Orders(S) == {q \in [1..Cardinality(S) -> S] : \A i, k \in DOMAIN q : q[i] = q[k] => i = k}

InitSnapshot ==
    /\ fs \in FileSystems
    /\ root_dir \in RootDirArgs
    /\ manifest_out \in ManifestOutArgs
    /\ recursive \in BOOLEAN
    /\ InitSnapshotVars
    /\ dir = [f \in FileNames |-> NoFile]
    /\ disk = [p \in Paths |-> Absent]
    /\ cache_db = [p \in Paths |-> NoCacheEntry]
    /\ asset_manifest = <<>>
    /\ manifest = "r/mf"
    /\ run = 1
    /\ first_run = NoRun
    /\ update = FALSE
    /\ InitPipelineVars
    /\ InitDetectVars
    /\ InitMergeVars

NonValidInputError(d) == [kind |-> "NonValidInputError", names |-> d]

\* the two checks of the options and the default of --manifest-out
asset_snapshot_validate ==
    /\ spc = "start"
    /\ IF root_dir \notin fs.dirs
       THEN /\ error' = NonValidInputError(root_dir)
            /\ spc' = "failed"
            /\ UNCHANGED <<manifest_out, walk>>
       ELSE IF manifest_out # "" /\ manifest_out # None /\ manifest_out \notin fs.dirs
       THEN /\ error' = NonValidInputError(manifest_out)
            /\ spc' = "failed"
            /\ UNCHANGED <<manifest_out, walk>>
       ELSE /\ manifest_out' = IF manifest_out = None THEN root_dir ELSE manifest_out
            /\ walk' = <<root_dir>>
            /\ spc' = "walk"
            /\ UNCHANGED error
    /\ UNCHANGED <<fs, root_dir, recursive, inputs, prepare_calls, upload_group,
                   hash_calls, manifests, written>>
    /\ UNCHANGED <<dir, disk, cache_db, asset_manifest, detectVars, mergeVars, rerunVars,
                   pipelineVars>>

\* the walk gone wrong: the loop is never left after the first directory
os_walk_no_break ==
    /\ spc = "walk"
    /\ LET top == Head(walk)
       IN  \E files \in Orders({f \in fs.files : dirname(f) = top}),
              dirs \in Orders({d \in fs.dirs : dirname(d) = top}) :
               /\ inputs' = inputs \o files
               /\ walk' = dirs \o Tail(walk)
               /\ spc' = IF dirs \o Tail(walk) = <<>> THEN "prepare" ELSE "walk"
    /\ UNCHANGED <<fs, root_dir, manifest_out, recursive, prepare_calls, upload_group,
                   hash_calls, manifests, written, error>>
    /\ UNCHANGED <<dir, disk, cache_db, asset_manifest, detectVars, mergeVars, rerunVars,
                   pipelineVars>>

\* one turn of the loop over os.walk(root_dir): the next directory, top
\* down, gives its files, which are appended to inputs, and its
\* sub-directories, which are visited next; without --recursive the loop is
\* left after the first turn
os_walk ==
    /\ spc = "walk"
    /\ LET top == Head(walk)
       IN  \E files \in Orders({f \in fs.files : dirname(f) = top}),
              dirs \in Orders({d \in fs.dirs : dirname(d) = top}) :
               /\ inputs' = inputs \o files
               /\ walk' = IF recursive THEN dirs \o Tail(walk) ELSE <<>>
               /\ spc' = IF ~recursive \/ dirs \o Tail(walk) = <<>>
                          THEN "prepare" ELSE "walk"
    /\ UNCHANGED <<fs, root_dir, manifest_out, recursive, prepare_calls, upload_group,
                   hash_calls, manifests, written, error>>
    /\ UNCHANGED <<dir, disk, cache_db, asset_manifest, detectVars, mergeVars, rerunVars,
                   pipelineVars>>

\* S3AssetManager.prepare_paths_for_upload groups the paths it is given by
\* asset root: one group for the root of the output path, holding the
\* input paths
AssetUploadGroup(input_paths, output_paths) ==
    [asset_groups |-> {[root_path |-> output_paths[k],
                        inputs |-> {input_paths[i] : i \in 1..Len(input_paths)}] :
                            k \in 1..Len(output_paths)},
     total_input_files |-> Len(input_paths)]

\* the call of prepare_paths_for_upload
prepare_paths_for_upload ==
    /\ spc = "prepare"
    /\ prepare_calls' = Append(prepare_calls,
                               [input_paths |-> inputs, output_paths |-> <<root_dir>>,
                                referenced_paths |-> <<>>])
    /\ upload_group' = AssetUploadGroup(inputs, <<root_dir>>)
    /\ spc' = "hash"
    /\ UNCHANGED <<fs, root_dir, manifest_out, recursive, walk, inputs, hash_calls,
                   manifests, written, error>>
    /\ UNCHANGED <<dir, disk, cache_db, asset_manifest, detectVars, mergeVars, rerunVars,
                   pipelineVars>>

\* api.hash_attachments, called when there is an asset group: one manifest
\* per group.  Without a group the name manifests is unbound at the loop
\* that follows.
hash_attachments ==
    /\ spc = "hash"
    /\ IF upload_group.asset_groups # {}
       THEN /\ hash_calls' = hash_calls + 1
            /\ \E order \in Orders(upload_group.asset_groups) :
                   manifests' = [k \in DOMAIN order |->
                                   [root_path |-> order[k].root_path,
                                    asset_manifest |-> order[k].inputs]]
            /\ spc' = "write"
            /\ UNCHANGED error
       ELSE /\ error' = [kind |-> "UnboundLocalError", names |-> "manifests"]
            /\ spc' = "failed"
            /\ UNCHANGED <<hash_calls, manifests>>
    /\ UNCHANGED <<fs, root_dir, manifest_out, recursive, walk, inputs, prepare_calls,
                   upload_group, written>>
    /\ UNCHANGED <<dir, disk, cache_db, asset_manifest, detectVars, mergeVars, rerunVars,
                   pipelineVars>>

\* the loop that writes each manifest into the directory manifest_out
write_local_input_manifest ==
    /\ spc = "write"
    /\ written' = {[manifest_write_dir |-> manifest_out,
                    manifest |-> manifests[k].asset_manifest] : k \in DOMAIN manifests}
    /\ spc' = "done"
    /\ UNCHANGED <<fs, root_dir, manifest_out, recursive, walk, inputs, prepare_calls,
                   upload_group, hash_calls, manifests, error>>
    /\ UNCHANGED <<dir, disk, cache_db, asset_manifest, detectVars, mergeVars, rerunVars,
                   pipelineVars>>

NextSnapshot ==
    \/ asset_snapshot_validate
    \/ os_walk
    \/ prepare_paths_for_upload
    \/ hash_attachments
    \/ write_local_input_manifest

SpecSnapshot == InitSnapshot /\ [][NextSnapshot]_vars

(* ------------------------- claims on the merge ------------------------ *)

PathsOf(L) == {L[i].path : i \in 1..Len(L)}
ChangedPaths(changes) == {changes[j].entry.path : j \in 1..Len(changes)}
\* the entry of the list L for path p (L lists p once)
EntryOf(L, p) == L[FirstIndex(L, p)]
\* the last change of the list that names path p
LastChange(changes, p) ==
    changes[CHOOSE j \in 1..Len(changes) :
                /\ changes[j].entry.path = p
                /\ \A k \in (j + 1)..Len(changes) : changes[k].entry.path # p]

\* C1: merging the same change list a second time, the second merge reading
\* the file the first one wrote, leaves the persisted manifest and the
\* returned manifest as the first merge left them.
MergeIdempotent ==
    (calls = 2 /\ outcome = "returned" /\ manifest_file_path = first_call.file)
        => /\ dir[manifest_file_path] = first_call.text
           /\ returned = first_call.paths

\* a second merge of a list that names one new path twice, with two hashes,
\* after a first merge that changed the file
MergedTwice ==
    /\ calls = 2 /\ outcome = "returned" /\ manifest_file_path = first_call.file
    /\ first_call.paths # first_call.old
    /\ Len(arg_changes) = 2
    /\ arg_changes[1].entry.path = arg_changes[2].entry.path
    /\ arg_changes[1].entry.hash # arg_changes[2].entry.hash
    /\ arg_changes[1].entry.path \notin PathsOf(first_call.old)

MergeCarriesHashAndSize ==
    (calls = 1 /\ outcome = "returned")
        => \A j \in 1..Len(arg_changes) :
               LET ch == arg_changes[j]
               IN  (ch.status \in {"NEW", "MODIFIED"}
                        /\ LastChange(arg_changes, ch.entry.path) = ch)
                   => /\ ch.entry.path \in PathsOf(returned)
                      /\ ch.entry.path \in PathsOf(old_paths)
                            => /\ EntryOf(returned, ch.entry.path).hash = ch.entry.hash
                               /\ EntryOf(returned, ch.entry.path).size = ch.entry.size

\* C4: the merge leaves the entries of the change list it was handed as
\* they were, and the manifest it returns shares no entry with that list.
MergeIsPure ==
    (calls = 1 /\ outcome = "returned")
        => /\ caller_changes = arg_changes
           /\ shared = {}

\* C5: a DELETED change alters nothing: an entry named only by DELETED
\* changes keeps its hash, and a path named only by DELETED changes gets no
\* entry.
DeletedAltersNothing ==
    (calls = 1 /\ outcome = "returned")
        => \A p \in ChangedPaths(arg_changes) :
               (\A j \in 1..Len(arg_changes) :
                    arg_changes[j].entry.path = p => arg_changes[j].status = "DELETED")
               => IF p \in PathsOf(old_paths)
                  THEN EntryOf(returned, p) = EntryOf(old_paths, p)
                  ELSE p \notin PathsOf(returned)

\* C13: a call made on a directory that holds no manifest file, or more
\* than one, ends with ManifestInconsistency and has written no file.
\* (update_manifest creates and removes no file, so the directory holds the
\* same manifest files after the call as before.)
MergeRequiresOneManifest ==
    (calls = 1 /\ Cardinality(InputFiles) # 1)
        => /\ outcome = "ManifestInconsistency"
           /\ manifest_file_path = "none"

\* the paths a manifest file held when the call was made
PathsBefore(f) == IF f = manifest_file_path THEN old_paths ELSE decode_manifest(dir[f])

\* C14: a call made on a manifest file that lists a path twice ends with
\* ManifestInconsistency and has written no file.
RepeatedPathsSurfaced ==
    (calls = 1 /\ \E f \in InputFiles : ~UniquePaths(PathsBefore(f)))
        => /\ outcome = "ManifestInconsistency"
           /\ manifest_file_path = "none"

\* C22: from a manifest file that lists no path twice, after any number of
\* calls with any change lists, the manifest file lists no path twice, and
\* neither does the manifest the last call returned.
PathsStayUnique ==
    /\ \A f \in InputFiles : UniquePaths(decode_manifest(dir[f]))
    /\ UniquePaths(returned)

\* a later call of a row was handed a list naming twice, with two hashes, a
\* path the file did not list, and has written the file with two paths
MergedRepeatedChange ==
    /\ calls >= 2
    /\ outcome = "returned"
    /\ Len(arg_changes) = 2
    /\ arg_changes[1].entry.path = arg_changes[2].entry.path
    /\ arg_changes[1].entry.hash # arg_changes[2].entry.hash
    /\ arg_changes[1].entry.path \notin PathsOf(old_paths)
    /\ Len(decode_manifest(dir[manifest_file_path])) = 2

(* ----------------------- claims on the detection ---------------------- *)

Ended == dpc \in {"returned", "raised"}
Tracked(p) == ~StartsWith(p, manifest_dir_name)
ReportedFor(p) == {k \in 1..Len(changes_result) : changes_result[k].entry.path = p}
\* a classification without its place in the list
Classification(c) == <<c.status, c.entry.path, c.entry.hash>>

\* C6: every tracked path of the manifest that is not on disk is in the
\* returned list with status DELETED, and was never hashed.
AbsentReportedDeleted ==
    dpc = "returned"
        => \A i \in 1..Len(asset_manifest) :
               LET p == asset_manifest[i].path
               IN  (Tracked(p) /\ ~disk[p].exists)
                   => /\ \E k \in ReportedFor(p) : changes_result[k].status = "DELETED"
                      /\ hashed[p] = 0

\* C7: a tracked file whose content hash equals the hash the manifest
\* records is not in the returned list, whatever the cache holds; one whose
\* hash differs is in it exactly once, as MODIFIED with the new hash.
StatusFromManifestHash ==
    dpc = "returned"
        => \A i \in 1..Len(asset_manifest) :
               LET e == asset_manifest[i]
                   h == hash_file(disk[e.path].content)
               IN  (Tracked(e.path) /\ disk[e.path].exists)
                   => IF h = e.hash
                      THEN ReportedFor(e.path) = {}
                      ELSE /\ Cardinality(ReportedFor(e.path)) = 1
                           /\ \A k \in ReportedFor(e.path) :
                                  /\ changes_result[k].status = "MODIFIED"
                                  /\ changes_result[k].entry.hash = h

\* The pass run by one thread, path after path in manifest order, on the
\* cache as it was opened: whether it raises, and what it classifies as
\* NEW or MODIFIED.
RECURSIVE SequentialPass(_, _, _, _)
SequentialPass(paths, i, session, acc) ==
    IF i > Len(paths) THEN acc
    ELSE IF ~disk[paths[i]].exists THEN SequentialPass(paths, i + 1, session, acc)
    ELSE LET p == paths[i]
             r == process_input_path(p, disk[p], session[p])
         IN  SequentialPass(paths, i + 1,
                 IF r.store = NoCacheEntry THEN session ELSE [session EXCEPT ![p] = r.store],
                 IF r.result.kind = "error" THEN [acc EXCEPT !.raised = TRUE]
                 ELSE IF r.result.status \in {"NEW", "MODIFIED"}
                 THEN [acc EXCEPT !.set = @ \cup {<<r.result.status, p, r.result.entry.hash>>}]
                 ELSE acc)
Sequential ==
    SequentialPass(input_paths_of(asset_manifest), 1, hash_cache.opened_on,
                   [raised |-> FALSE, set |-> {}])

\* C8: whatever the order in which the pool's threads run and finish, the
\* call raises exactly when the one-thread pass raises, and otherwise
\* returns the set of classifications the one-thread pass yields.
ClassificationsScheduleFree ==
    /\ dpc = "returned"
          => /\ ~Sequential.raised
             /\ {Classification(changes_result[k]) : k \in 1..Len(changes_result)}
                    = Sequential.set
    /\ dpc = "raised" => Sequential.raised

\* two changes returned in the order opposite to the manifest's
ReturnedOutOfOrder ==
    /\ dpc = "returned"
    /\ Len(changes_result) = 2
    /\ Len(futures) = 2
    /\ changes_result[1].entry.path = futures[2].path
    /\ changes_result[2].entry.path = futures[1].path
    /\ changes_result[1].status # changes_result[2].status

\* C9: when hashing a path fails, the call still returns: the list holds
\* the classification of every other changed path, and the failure is
\* reported with its path.
IsolateAndContinue ==
    (Ended /\ \E i \in 1..Len(futures) : futures[i].result.kind = "error")
        => /\ dpc = "returned"
           /\ \A i \in 1..Len(futures) :
                  (futures[i].result.kind = "value"
                       /\ futures[i].result.status \in {"NEW", "MODIFIED"})
                  => \E k \in ReportedFor(futures[i].path) :
                         changes_result[k].status = futures[i].result.status
           /\ \A i \in 1..Len(futures) :
                  futures[i].result.kind = "error"
                  => \E k \in ReportedFor(futures[i].path) :
                         changes_result[k].status = "IOError"

\* C10: however the call ends, the cache is closed and every entry a worker
\* stored during the pass is in the backing store.
CacheClosedAndFlushed ==
    Ended => /\ ~hash_cache.open
             /\ \A p \in Paths : stored[p] # NoCacheEntry => cache_db[p] = stored[p]

\* the call raised after another worker had stored a fresh entry
RaisedAfterStore ==
    /\ dpc = "raised"
    /\ \E p \in Paths : stored[p] # NoCacheEntry /\ hash_cache.opened_on[p] # stored[p]

\* the manifest storage directory, relative to the asset root, and the
\* manifest paths that lie under it
ManifestStorageDir == <<"m", "f">>
Under(p) == StartsWith(p, ManifestStorageDir \o <<"/">>)
Submitted(p) == \E k \in 1..Len(futures) : futures[k].path = p

\* C11: once the tasks are submitted, a path of the manifest has a task
\* exactly when it does not lie under the manifest storage directory,
\* whichever form of the directory's name --manifest was given as.
SkipsExactlyManifestDir ==
    dpc # "idle"
        => \A i \in 1..Len(asset_manifest) :
               Submitted(asset_manifest[i].path) <=> ~Under(asset_manifest[i].path)

\* C16: in one pass no path has more than one task, and no file is handed
\* to the hasher by more than one worker.
OneWorkerPerPath ==
    \A p \in Paths :
        /\ Cardinality({i \in 1..Len(futures) : futures[i].path = p}) <= 1
        /\ hashed[p] <= 1

\* C20: a task that has not finished (queued, or running between its cache
\* lookup and its store) exists only while the call is under way and the
\* cache is open.
WorkersEndBeforeClose ==
    \A i \in 1..Len(futures) :
        futures[i].state # "done"
            => /\ dpc \in {"collecting", "unwinding"}
               /\ hash_cache.open

\* the call raised, and a task whose result was never collected had run to
\* its end and stored its entry
RaisedWithUncollectedWork ==
    /\ dpc = "raised"
    /\ ~hash_cache.open
    /\ \E i \in 1..Len(futures) :
           /\ i \notin consumed
           /\ futures[i].state = "done"
           /\ stored[futures[i].path] # NoCacheEntry

(* -------------------- claims on two consecutive runs ------------------ *)

\* the second run has ended, like the first
BothEnded == run = 2 /\ Ended

ClassificationSet(changes) == {Classification(changes[k]) : k \in 1..Len(changes)}

\* C15: two consecutive runs that both return, on the same manifest and an
\* unmodified asset root, the second starting from the cache the first
\* left, return the same set of classifications.
SameClassificationsTwice ==
    (run = 2 /\ dpc = "returned" /\ first_run.dpc = "returned")
        => ClassificationSet(changes_result) = ClassificationSet(first_run.changes)

(* ----------------------- claims on asset_snapshot --------------------- *)

RECURSIVE Below(_, _)
\* x lies in the tree below the directory d
Below(x, d) == dirname(x) # "" /\ (dirname(x) = d \/ Below(dirname(x), d))

SeqSet(q) == {q[i] : i \in DOMAIN q}

\* C17: once the options are checked, a --root-dir that is no directory, or
\* a --manifest-out that is given and is no directory, has ended the
\* command with a NonValidInputError naming that directory, and no path was
\* prepared, nothing hashed and no manifest written.
SnapshotValidatesFirst ==
    (/\ spc # "start"
     /\ \/ root_dir \notin fs.dirs
        \/ manifest_out # None /\ manifest_out \notin fs.dirs)
        => /\ spc = "failed"
           /\ error.kind = "NonValidInputError"
           /\ error.names = IF root_dir \notin fs.dirs THEN root_dir ELSE manifest_out
           /\ prepare_calls = <<>>
           /\ hash_calls = 0
           /\ written = {}

\* C18: a snapshot that has prepared its paths has done so in one call,
\* with each file directly in the root directory (each file of the tree
\* below it, with --recursive) once as input path, and the root directory
\* as the only output path; a finished snapshot has hashed once.
SnapshotInputs ==
    /\ spc \in {"hash", "write", "done"}
          => /\ Len(prepare_calls) = 1
             /\ LET call == prepare_calls[1]
                IN  /\ SeqSet(call.input_paths)
                          = IF recursive THEN {f \in fs.files : Below(f, root_dir)}
                            ELSE {f \in fs.files : dirname(f) = root_dir}
                    /\ Cardinality(SeqSet(call.input_paths)) = Len(call.input_paths)
                    /\ call.output_paths = <<root_dir>>
                    /\ call.referenced_paths = <<>>
    /\ spc = "done" => hash_calls = 1
    /\ spc \in {"start", "walk", "prepare"} => prepare_calls = <<>> /\ hash_calls = 0

\* a finished recursive snapshot of a tree with files two directories
\* below the root and in two sibling directories
SnapshotOfDeepTree ==
    /\ spc = "done"
    /\ recursive
    /\ {"r/s/t/k", "r/u/h", "r/s/g"} \subseteq SeqSet(inputs)

\* a finished snapshot without --recursive of a root that has files in
\* sub-directories
SnapshotOfTopOnly ==
    /\ spc = "done"
    /\ ~recursive
    /\ fs.files = SnapFiles

(* ------------------------ claims on asset_upload ---------------------- *)

\* C19: when the detection returned changes, then without --update the
\* command has, once past the branch, failed with ManifestOutdatedError,
\* never called upload_attachments and never rewritten the manifest file;
\* and whenever upload_attachments was called, --update was set, the
\* changes had been merged into the manifest file, and the one manifest
\* passed is the merged one: what update_manifest returned, what the file
\* holds, with every change's path listed under the change's hash.
UploadsCurrentManifestOnly ==
    (dpc = "returned" /\ Len(changes_result) > 0)
        => /\ (~update /\ upc # "detect")
                 => /\ upc = "failed"
                    /\ upload_error = "ManifestOutdatedError"
           /\ ~update
                 => /\ upload_calls = <<>>
                    /\ calls = 0
                    /\ dir["x_input"] = encode(asset_manifest)
           /\ upload_calls # <<>>
                 => /\ update
                    /\ Len(upload_calls) = 1
                    /\ calls = 1 /\ outcome = "returned"
                    /\ upload_calls[1].manifests = <<returned>>
                    /\ decode_manifest(dir[manifest_file_path]) = returned
                    /\ \A k \in 1..Len(changes_result) :
                           \E i \in 1..Len(returned) :
                               /\ returned[i].path = changes_result[k].entry.path
                               /\ returned[i].hash = changes_result[k].entry.hash

\* an upload with --update finished after a merge that changed the
\* manifest file
UploadedAfterMerge ==
    /\ upc = "done"
    /\ update
    /\ Len(changes_result) > 0
    /\ returned # old_paths
    /\ upload_calls[1].manifests = <<returned>>

\* an upload without --update was refused because of a change
UploadRefused ==
    /\ upc = "failed"
    /\ ~update
    /\ Len(changes_result) > 0

\* C21: a second run of the command, after a first run whose detection
\* returned changes that update_manifest merged into the manifest file,
\* decodes the merged manifest and, the asset root being as it was, gets an
\* empty change list from its detection.
DetectThenMergeConverges ==
    (run = 2 /\ dpc = "returned" /\ first_run.dpc = "returned" /\ calls >= 1)
        => changes_result = <<>>

\* the first run merged a change that rewrote the manifest file, and the
\* second run's detection has returned on the merged manifest
DetectedAfterMerge ==
    /\ run = 2
    /\ dpc = "returned"
    /\ calls = 1
    /\ first_run.changes # <<>>
    /\ returned # old_paths
    /\ asset_manifest = returned
    /\ \E i \in 1..Len(futures) :
           futures[i].result.kind = "value" /\ futures[i].result.status = "UNCHANGED"

====
